---------------------------- MODULE Spec2Model ----------------------------
(***************************************************************************)
(* Accessibility route segmentation and scoring engine of the wheelchair   *)
(* route finder (frontend/app/components/map.tsx and its older variant),   *)
(* its issue report store (localStorage) and the backend's report          *)
(* endpoint (backend/src/controllers/reports.js).                          *)
(*                                                                         *)
(* Spec: the Index component; SpecCalc: one calcRoute call; SpecGen: the   *)
(* older variant's segment generator; SpecReports: reports and route       *)
(* requests as days pass; SpecStore: the report store under localStorage   *)
(* faults; SpecSearch: one search box with its debounce timer;             *)
(* SpecOverpass: one parseOverpassData call; SpecApi: validation in the    *)
(* backend's route and report endpoints; SpecLimiter: the rate limiter of  *)
(* the reverse-geocode endpoint.                                           *)
(*                                                                         *)
(* Coordinates are whole metres in a local planar frame (north, east)      *)
(* around KU_CENTER; a point is <<lat, lng>> as in the code's tuples.      *)
(* JavaScript numbers that the code divides are exact rationals            *)
(* [k |-> "num", n, d]; NaN and undefined are values of their own.         *)
(***************************************************************************)
EXTENDS Integers, Sequences, FiniteSets, TLC

VARIABLES
  \* one call of calcRoute (map.tsx:168-183)
  cStart, cEnd, cHazards, cResp, cRet, cPc,
  \* the Index component (map.tsx:734-784); null is <<>>, a value v is <<v>>
  startPoint, endPoint, aPoints, reports, route, isRouting,
  stored,      \* localStorage[STORAGE_KEY], parsed
  pending,     \* doRoute calls waiting at `await calcRoute(...)`
  issued,      \* number of doRoute calls that got past the guard so far
  shown,       \* which doRoute call set the displayed route (0: none)
  latest,      \* the result of the most recently issued call, once it has arrived
  now,         \* the wall clock (Date), in hours since the component mounted
  lsFault,     \* what is wrong with localStorage ("none": nothing)
  log,         \* the report store calls made so far, in order
  dbReports,   \* rows of the backend's reports table
  \* runs of generateEnhancedAccessibilitySegments on one path (older variant)
  gCoords, gRuns,
  \* one search box (map.tsx:251-279, older variant part_006:787-811)
  sVariant,    \* which component the box belongs to
  sq,          \* the input's text
  sTimer,      \* the armed debounce timer: the text its callback will search for
  sInflight,   \* searchPlaces calls waiting for the provider
  sResults,    \* the results shown (sr, searchResults)
  sSearching,  \* the 'searching' flag (ss, isSearching)
  sFired,      \* number of timer callbacks run so far
  sShown,      \* which search set the results shown (0: none)
  sLatest,     \* the results of the most recently fired search, once resolved
  sLast,       \* the searchPlaces call that resolved last
  sInvoked,    \* the last searchPlaces invocation and the input's text at that time
  \* one call of parseOverpassData (part_006:169-218)
  ovData, ovPoints,
  \* the backend's endpoints: the requests answered so far
  apiCalls,
  \* the reverse-geocode rate limiter (largenepal places.js:54-103)
  geocodeCache,  \* global.geocodeCache: per key, the recorded time
  gcNow,         \* Date.now(), in ms
  gcLog          \* the requests answered so far

calcVars == <<cStart, cEnd, cHazards, cResp, cRet, cPc>>
uiVars == <<startPoint, endPoint, aPoints, reports, route, isRouting, stored,
            pending, issued, shown, latest, now, lsFault, log, dbReports>>
genVars == <<gCoords, gRuns>>
searchVars == <<sVariant, sq, sTimer, sInflight, sResults, sSearching, sFired, sShown,
                sLatest, sLast, sInvoked>>
ovVars == <<ovData, ovPoints>>
apiVars == <<apiCalls>>
gcVars == <<geocodeCache, gcNow, gcLog>>
extVars == <<searchVars, ovVars, apiVars, gcVars>>
vars == <<cStart, cEnd, cHazards, cResp, cRet, cPc,
          startPoint, endPoint, aPoints, reports, route, isRouting, stored,
          pending, issued, shown, latest, now, lsFault, log, dbReports,
          gCoords, gRuns,
          sVariant, sq, sTimer, sInflight, sResults, sSearching, sFired, sShown, sLatest,
          sLast, sInvoked,
          ovData, ovPoints, apiCalls, geocodeCache, gcNow, gcLog>>

--------------------------------------------------------------------------
\* Bounds of the model
MaxLen == 56          \* longest provider path, in points
MaxHazards == 2       \* longest hazard list handed to calcRoute
MaxRequests == 2      \* doRoute calls in one behaviour of the Index component
MaxReports == 2       \* reports in localStorage at a time
MaxGenLen == 3        \* longest path handed to generateEnhancedAccessibilitySegments
MaxClock == 48        \* hours the Index component stays mounted
MaxRows == 1          \* rows inserted into the backend's reports table
MaxAsked == 1         \* route requests in one behaviour of the reports-over-time user
MaxOps == 3           \* report store calls in one behaviour of the report store

--------------------------------------------------------------------------
\* Arithmetic helpers

Min(a, b) == IF a < b THEN a ELSE b
Max(a, b) == IF a > b THEN a ELSE b
Abs(a) == IF a < 0 THEN -a ELSE a
FloorDiv(a, b) == a \div b
CeilDiv(a, b) == (a + b - 1) \div b

RECURSIVE GCD(_, _)
GCD(a, b) == IF b = 0 THEN a ELSE GCD(b, a % b)

\* JavaScript numbers: exact rationals in lowest terms, NaN, undefined
NaN == [k |-> "NaN", n |-> 0, d |-> 1]
Undefined == [k |-> "undefined", n |-> 0, d |-> 1]
Rat(n, d) ==
  LET g == GCD(Abs(n), Abs(d))
      s == IF d < 0 THEN -1 ELSE 1
  IN [k |-> "num", n |-> s * (n \div g), d |-> s * (d \div g)]
IsNum(x) == x.k = "num"
RAdd(x, y) == IF IsNum(x) /\ IsNum(y) THEN Rat(x.n * y.d + y.n * x.d, x.d * y.d) ELSE NaN
RMul(x, y) == IF IsNum(x) /\ IsNum(y) THEN Rat(x.n * y.n, x.d * y.d) ELSE NaN
\* x / y; 0/0 is NaN, the model never divides a non-zero number by zero
RDiv(x, y) ==
  IF IsNum(x) /\ IsNum(y) /\ y.n # 0 THEN Rat(x.n * y.d, x.d * y.n) ELSE NaN
RLeq(x, y) == IsNum(x) /\ IsNum(y) /\ x.n * y.d <= y.n * x.d
\* Math.max: NaN if either argument is NaN
RMax(x, y) == IF IsNum(x) /\ IsNum(y) THEN (IF RLeq(x, y) THEN y ELSE x) ELSE NaN

\* the integer square root of n > 0 by Newton's iteration from x >= sqrt(n)
RECURSIVE SqrtFrom(_, _)
SqrtFrom(n, x) ==
  LET y == (x + n \div x) \div 2
  IN IF y >= x THEN x ELSE SqrtFrom(n, y)

\* haversine(a, b) in whole metres (rounded down): at campus scale the
\* great-circle distance is the planar distance of the local frame
haversine(a, b) ==
  LET dLa == Abs(b[1] - a[1])
      dLo == Abs(b[2] - a[2])
  IN IF dLa + dLo = 0 THEN 0
     ELSE SqrtFrom(dLa * dLa + dLo * dLo, Max(dLa, dLo) + (Min(dLa, dLo) + 1) \div 2)

--------------------------------------------------------------------------
\* Sequence helpers

\* Array.prototype.slice(from, to) with 0-based from (inclusive), to (exclusive)
slice(s, from, to) == SubSeq(s, from + 1, to)

countTag(segs, tag) == Cardinality({j \in 1..Len(segs) : segs[j].accessibility = tag})

\* the sum of the distances between consecutive points of a path
RECURSIVE PathSum(_)
PathSum(path) ==
  IF Len(path) < 2 THEN 0
  ELSE haversine(path[1], path[2]) + PathSum(Tail(path))

--------------------------------------------------------------------------
\* estimateTime, classifySeg, buildResult (map.tsx:139-166)

\* estimateTime without its first line, the guard for an empty segment list
estimateTime_noEmptyGuard(dist, segs) ==
  LET n == Len(segs)
      sr == RDiv(Rat(countTag(segs, "safe"), 1), Rat(n, 1))
      cr == RDiv(Rat(countTag(segs, "caution"), 1), Rat(n, 1))
      hr == RDiv(Rat(countTag(segs, "hazard"), 1), Rat(n, 1))
  IN RDiv(dist, RMax(RAdd(RAdd(RMul(sr, Rat(1, 1)), RMul(cr, Rat(65, 100))),
                          RMul(hr, Rat(35, 100))),
                     Rat(2, 10)))

\* estimateTime with the ratios taken over points instead of segments
estimateTime_lengthWeighted(dist, segs) ==
  IF Len(segs) = 0 THEN RDiv(dist, Rat(1, 1))
  ELSE LET RECURSIVE pts(_, _)
           pts(j, tag) ==
             IF j > Len(segs) THEN 0
             ELSE (IF segs[j].accessibility = tag THEN Len(segs[j].coordinates) ELSE 0)
                  + pts(j + 1, tag)
           n == pts(1, "safe") + pts(1, "caution") + pts(1, "hazard")
           sr == RDiv(Rat(pts(1, "safe"), 1), Rat(n, 1))
           cr == RDiv(Rat(pts(1, "caution"), 1), Rat(n, 1))
           hr == RDiv(Rat(pts(1, "hazard"), 1), Rat(n, 1))
       IN RDiv(dist, RMax(RAdd(RAdd(RMul(sr, Rat(1, 1)), RMul(cr, Rat(65, 100))),
                               RMul(hr, Rat(35, 100))),
                          Rat(2, 10)))

estimateTime(dist, segs) ==
  IF Len(segs) = 0 THEN RDiv(dist, Rat(1, 1))
  ELSE LET n == Len(segs)
           sr == RDiv(Rat(countTag(segs, "safe"), 1), Rat(n, 1))
           cr == RDiv(Rat(countTag(segs, "caution"), 1), Rat(n, 1))
           hr == RDiv(Rat(countTag(segs, "hazard"), 1), Rat(n, 1))
       IN RDiv(dist, RMax(RAdd(RAdd(RMul(sr, Rat(1, 1)), RMul(cr, Rat(65, 100))),
                               RMul(hr, Rat(35, 100))),
                          Rat(2, 10)))

\* the tag a matching hazard point gives
tagOf(h) == IF h.type = "hazard" THEN "hazard"
            ELSE IF h.type = "caution" THEN "caution" ELSE "safe"

\* for(const h of hazards) for(const c of coords) if(haversine(c,h)<30) return ...
RECURSIVE classifyFrom(_, _, _)
classifyFrom(coords, hazards, hi) ==
  IF hi > Len(hazards) THEN "safe"
  ELSE IF \E ci \in 1..Len(coords) :
            haversine(coords[ci], <<hazards[hi].lat, hazards[hi].lng>>) < 30
       THEN tagOf(hazards[hi])
       ELSE classifyFrom(coords, hazards, hi + 1)

\* a hazard at exactly 30 m counts as near
classifySeg_inclusive(coords, hazards) ==
  LET near == {hi \in 1..Len(hazards) :
                 \E ci \in 1..Len(coords) :
                   haversine(coords[ci], <<hazards[hi].lat, hazards[hi].lng>>) <= 30}
  IN  IF near = {} THEN "safe"
      ELSE tagOf(hazards[CHOOSE hi \in near : \A other \in near : hi <= other])

classifySeg(coords, hazards) == classifyFrom(coords, hazards, 1)

\* n without the upper clamp
numChunks_noCap(len) == Max(3, FloorDiv(len, 5))

numChunks(len) == Min(10, Max(3, FloorDiv(len, 5)))

chunkSize(len) == CeilDiv(len, numChunks(len))

\* the slice end without the shared boundary point
sliceEnd_noOverlap(i, chunk, len) == Min(i + chunk, len)

sliceEnd(i, chunk, len) == Min(i + chunk + 1, len)

\* a stride that steps past the shared boundary point
nextIndex_skipBoundary(i, chunk) == i + chunk + 1

\* i += chunk
nextIndex(i, chunk) == i + chunk

surfaceOf(acc) == IF acc = "safe" THEN "Paved" ELSE "Unknown"
descriptionOf(acc) ==
  IF acc = "safe" THEN "Clear accessible path"
  ELSE IF acc = "caution" THEN "Proceed carefully" ELSE "Accessibility barrier"

\* the loop of buildResult from index i on; `from` records the index the
\* slice was cut at (it is not a field of the code's RouteSegment)
RECURSIVE buildSegs(_, _, _, _)
buildSegs(coords, hazards, chunk, i) ==
  IF ~(i < Len(coords) - 1) THEN <<>>
  ELSE LET sl == slice(coords, i, sliceEnd(i, chunk, Len(coords)))
           acc == classifySeg(sl, hazards)
           rest == buildSegs(coords, hazards, chunk, nextIndex(i, chunk))
       IN IF Len(sl) < 2 THEN rest
          ELSE <<[coordinates |-> sl, accessibility |-> acc,
                  surface |-> surfaceOf(acc), description |-> descriptionOf(acc),
                  from |-> i]>> \o rest

\* warnings: a line is its text with the count it names (0 for the advisory)
warnings_cautionFirst(hc, cc) ==
  (IF cc # 0 THEN <<[text |-> "caution area(s) - proceed with care", count |-> cc,
                     plural |-> cc > 1]>> ELSE <<>>)
  \o (IF hc # 0 THEN <<[text |-> "accessibility barrier(s) on this route", count |-> hc,
                        plural |-> hc > 1]>> ELSE <<>>)
  \o <<[text |-> "Verify accessibility features on ground", count |-> 0,
        plural |-> FALSE]>>

warnings(hc, cc) ==
  (IF hc # 0 THEN <<[text |-> "accessibility barrier(s) on this route", count |-> hc,
                     plural |-> hc > 1]>> ELSE <<>>)
  \o (IF cc # 0 THEN <<[text |-> "caution area(s) - proceed with care", count |-> cc,
                        plural |-> cc > 1]>> ELSE <<>>)
  \o <<[text |-> "Verify accessibility features on ground", count |-> 0,
        plural |-> FALSE]>>

\* elevationProfile is display data derived from coords and dist alone; the
\* model keeps the result's other four fields
buildResult_sumDistance(coords, dist, hazards) ==
  LET segs == buildSegs(coords, hazards, chunkSize(Len(coords)), 0)
      sum == Rat(PathSum(coords), 1)
  IN [segments |-> segs,
      totalDistance |-> sum,
      estimatedTime |-> estimateTime(sum, segs),
      warnings |-> warnings(countTag(segs, "hazard"), countTag(segs, "caution"))]

buildResult(coords, dist, hazards) ==
  LET segs == buildSegs(coords, hazards, chunkSize(Len(coords)), 0)
  IN [segments |-> segs,
      totalDistance |-> dist,
      estimatedTime |-> estimateTime(dist, segs),
      warnings |-> warnings(countTag(segs, "hazard"), countTag(segs, "caution"))]

--------------------------------------------------------------------------
\* calcRoute (map.tsx:168-183)

\* What the routing provider call comes to. kind names the first thing that
\* is wrong with it ("ok": nothing); coordinates are the body's [lng, lat]
\* pairs and distance its routes[0].distance, where the body has them.
fetchRejects(resp) == resp.kind = "transport_error"
rOk(resp) == resp.kind # "non_2xx"
jsonRejects(resp) == resp.kind = "unparseable"
hasRoute(resp) == resp.kind # "no_routes"
hasGeometry(resp) == resp.kind # "no_geometry"
hasCoordinates(resp) == resp.kind # "no_coordinates"

\* route.geometry.coordinates.map(c => [c[1], c[0]])
swapLngLat(cs) == [j \in 1..Len(cs) |-> <<cs[j][2], cs[j][1]>>]

\* the catch branch's path: two legs of 13 points each and the end point
fallbackCoords_diagonal(start, end) ==
  LET mid == (start.lat + end.lat) \div 2
      leg1 == [j \in 1..13 |-> <<start.lat + ((mid - start.lat) * (j - 1)) \div 12,
                                 start.lng + ((end.lng - start.lng) * (j - 1)) \div 12>>]
      leg2 == [j \in 1..13 |-> <<mid + ((end.lat - mid) * (j - 1)) \div 12, end.lng>>]
  IN leg1 \o leg2 \o <<(<<end.lat, end.lng>>)>>

fallbackCoords(start, end) ==
  LET mid == (start.lat + end.lat) \div 2
      leg1 == [j \in 1..13 |-> <<start.lat + ((mid - start.lat) * (j - 1)) \div 12, start.lng>>]
      leg2 == [j \in 1..13 |-> <<mid, start.lng + ((end.lng - start.lng) * (j - 1)) \div 12>>]
  IN leg1 \o leg2 \o <<(<<end.lat, end.lng>>)>>

\* start.distanceTo(end) * 1.25
fallbackDistance_noFactor(start, end) ==
  Rat(haversine(<<start.lat, start.lng>>, <<end.lat, end.lng>>), 1)

fallbackDistance(start, end) ==
  RMul(Rat(haversine(<<start.lat, start.lng>>, <<end.lat, end.lng>>), 1), Rat(125, 100))

fallbackResult(start, end, hazards) ==
  buildResult(fallbackCoords(start, end), fallbackDistance(start, end), hazards)

\* the try block throws exactly when one of these holds
tryThrows(resp) ==
  \/ fetchRejects(resp)
  \/ ~rOk(resp)
  \/ jsonRejects(resp)
  \/ ~hasRoute(resp)
  \/ ~hasGeometry(resp)        \* TypeError: route.geometry is undefined
  \/ ~hasCoordinates(resp)     \* TypeError: coordinates is undefined

calcRoute(start, end, hazards, resp) ==
  IF tryThrows(resp) THEN fallbackResult(start, end, hazards)
  ELSE buildResult(swapLngLat(resp.coordinates), resp.distance, hazards)

--------------------------------------------------------------------------
\* Inputs of one calcRoute call

Point(la, lo) == [lat |-> la, lng |-> lo]
Hazard(la, lo, ty, cat) == [lat |-> la, lng |-> lo, type |-> ty, category |-> cat]

\* start and end are such that the fallback's interpolation is exact
Starts == {Point(0, 0)}
Ends == {Point(24, 36), Point(0, 120), Point(-48, -60)}

\* an info point on the provider path, a hazard point 20 m off it near the
\* info point, a caution point 20 m off it further on, and a hazard point
\* exactly 30 m off it
HazardPool ==
  {Hazard(0, 20, "info", "ramp"), Hazard(20, 20, "hazard", "pothole"),
   Hazard(20, 100, "caution", "narrow_path"), Hazard(30, 200, "hazard", "stairs")}

SeqsUpTo(S, n) == UNION {[1..k -> S] : k \in 0..n}

\* provider paths, as [lng, lat] pairs: a straight line east in 10 m steps,
\* and a path that keeps coming back to its first points
lineBody(len) == [j \in 1..len |-> <<10 * (j - 1), 0>>]
loopBody(len) == [j \in 1..len |-> <<10 * ((j - 1) % 3), 0>>]
Bodies == {lineBody(len) : len \in 0..MaxLen} \cup {loopBody(len) : len \in 0..MaxLen}

ProviderDistances == {Rat(0, 1), Rat(1000, 1)}

FailKinds ==
  {"transport_error", "non_2xx", "unparseable", "no_routes", "no_geometry",
   "no_coordinates"}

Responses ==
  {[kind |-> kd, coordinates |-> <<>>, distance |-> Undefined] : kd \in FailKinds}
  \cup {[kind |-> "no_distance", coordinates |-> b, distance |-> Undefined] : b \in Bodies}
  \cup {[kind |-> "ok", coordinates |-> b, distance |-> d] :
          b \in Bodies, d \in ProviderDistances}

NoResp == [kind |-> "none", coordinates |-> <<>>, distance |-> Undefined]

\* the Index component is not mounted
UiIdle ==
  /\ startPoint = <<>> /\ endPoint = <<>> /\ aPoints = <<>> /\ reports = <<>>
  /\ route = <<>> /\ isRouting = FALSE /\ stored = <<>> /\ pending = {}
  /\ issued = 0 /\ shown = 0 /\ latest = <<>>
  /\ now = 0 /\ lsFault = "none" /\ log = <<>> /\ dbReports = <<>>

\* no run of generateEnhancedAccessibilitySegments
GenIdle == gCoords = <<>> /\ gRuns = <<>>

\* no search box, no parseOverpassData call, no backend
SearchIdle ==
  /\ sVariant = "none" /\ sq = <<>> /\ sTimer = <<>> /\ sInflight = {}
  /\ sResults = <<>> /\ sSearching = FALSE /\ sFired = 0 /\ sShown = 0 /\ sLatest = <<>>
  /\ sLast = <<>> /\ sInvoked = <<>>
OvIdle == ovData = <<>> /\ ovPoints = <<>>
ApiIdle == apiCalls = <<>>
GcIdle == geocodeCache = <<>> /\ gcNow = 0 /\ gcLog = <<>>
ExtIdle == SearchIdle /\ OvIdle /\ ApiIdle /\ GcIdle

\* no call of calcRoute on its own
CalcIdle ==
  /\ cStart = Point(0, 0) /\ cEnd = Point(0, 0) /\ cHazards = <<>>
  /\ cResp = NoResp /\ cRet = <<>> /\ cPc = "idle"

CalcInit ==
  /\ cStart \in Starts
  /\ cEnd \in Ends
  /\ cHazards \in SeqsUpTo(HazardPool, MaxHazards)
  /\ cResp = NoResp
  /\ cRet = <<>>
  /\ cPc = "call"
  /\ UiIdle
  /\ GenIdle
  /\ ExtIdle

\* const r = await fetch(...): the request is out
CalcFetch ==
  /\ cPc = "call"
  /\ cPc' = "await"
  /\ UNCHANGED <<cStart, cEnd, cHazards, cResp, cRet>>
  /\ UNCHANGED <<uiVars, genVars, extVars>>

\* the provider call comes to resp and calcRoute runs to its return
CalcSettle ==
  /\ cPc = "await"
  /\ \E resp \in Responses :
       /\ cResp' = resp
       /\ cRet' = <<calcRoute(cStart, cEnd, cHazards, resp)>>
  /\ cPc' = "resolved"
  /\ UNCHANGED <<cStart, cEnd, cHazards>>
  /\ UNCHANGED <<uiVars, genVars, extVars>>

CalcNext == CalcFetch \/ CalcSettle

SpecCalc == CalcInit /\ [][CalcNext]_vars


--------------------------------------------------------------------------
\* Claims about one calcRoute call (SpecCalc)

Resolved == cPc = "resolved"
Ret == cRet[1]

\* the path the call's result was built from
PathOf(start, end, resp) ==
  IF tryThrows(resp) THEN fallbackCoords(start, end) ELSE swapLngLat(resp.coordinates)
CalcPath == PathOf(cStart, cEnd, cResp)

\* segments put back together: each segment after the first without its first point
RECURSIVE Reassemble(_)
Reassemble(segs) ==
  IF Len(segs) = 0 THEN <<>>
  ELSE IF Len(segs) = 1 THEN segs[1].coordinates
  ELSE LET front == Reassemble(SubSeq(segs, 1, Len(segs) - 1))
       IN front \o Tail(segs[Len(segs)].coordinates)

\* C1 as stated: for every path of L >= 0 points the segments of the result,
\* put back together without the repeated boundary points, are the path.
C1_AnyLength == Resolved => Reassemble(Ret.segments) = CalcPath

\* C1 amended: the same for every path of L = 0 or L >= 2 points (a path of
\* one point has no segment of two points and comes back as no segments).
C1_Reassembles ==
  (Resolved /\ Len(CalcPath) # 1) => Reassemble(Ret.segments) = CalcPath

\* C1: a longest provider path, cut into several segments, is put back together
C1_Witness ==
  /\ Resolved
  /\ cResp.kind = "ok"
  /\ Len(CalcPath) = MaxLen
  /\ Len(Ret.segments) >= 3
  /\ Reassemble(Ret.segments) = CalcPath

NearHazardPoint(sl, hazards) ==
  \E hi \in 1..Len(hazards) : \E ci \in 1..Len(sl) :
    /\ hazards[hi].type = "hazard"
    /\ haversine(sl[ci], <<hazards[hi].lat, hazards[hi].lng>>) < 30

\* C2: every segment with a point less than 30 m from a hazard-severity point
\* of the hazard list is tagged hazard, whatever else the list holds.
C2_HazardWins ==
  Resolved =>
    \A j \in 1..Len(Ret.segments) :
      NearHazardPoint(Ret.segments[j].coordinates, cHazards)
        => Ret.segments[j].accessibility = "hazard"

\* C4: whatever the provider call comes to, the call resolves with a result
\* of at least one segment, each of at least 2 points.
C4_Usable ==
  /\ cPc # "rejected"
  /\ Resolved =>
       /\ Len(Ret.segments) >= 1
       /\ \A j \in 1..Len(Ret.segments) : Len(Ret.segments[j].coordinates) >= 2

\* C5: a response that is not a well-formed success (transport error, non-2xx,
\* unparseable body, no routes[0], no geometry.coordinates, no distance)
\* gives the synthesized fallback route.
C5_FallbackOnMalformed ==
  (Resolved /\ cResp.kind # "ok") => Ret = fallbackResult(cStart, cEnd, cHazards)

Clamp(x, lo, hi) == IF x < lo THEN lo ELSE IF x > hi THEN hi ELSE x
ClaimedChunks(len) == Clamp(len \div 5, 3, 10)

\* C6 as stated: a path of len >= 2 points gives exactly
\* n = clamp(floor(len/5), 3, 10) segments.
C6_ExactlyN ==
  (Resolved /\ Len(CalcPath) >= 2) => Len(Ret.segments) = ClaimedChunks(Len(CalcPath))

\* C6 amended: a path of len >= 2 points is cut with chunk size
\* c = ceil(len/n), n = clamp(floor(len/5), 3, 10), into exactly
\* ceil((len-1)/c) segments: at least 1 and never more than n (so never more
\* than 10), but fewer than n, and fewer than 3, for some lengths.
C6_SegmentCount ==
  (Resolved /\ Len(CalcPath) >= 2) =>
    LET len == Len(CalcPath)
        n == ClaimedChunks(len)
        c == CeilDiv(len, n)
    IN /\ Len(Ret.segments) = CeilDiv(len - 1, c)
       /\ Len(Ret.segments) >= 1
       /\ Len(Ret.segments) <= n
       /\ Len(Ret.segments) <= 10

\* C6: a path of 31 points, for which n = 6, comes back as 5 segments
C6_Witness ==
  /\ Resolved
  /\ Len(CalcPath) = 31
  /\ ClaimedChunks(31) = 6
  /\ Len(Ret.segments) = 5

\* C7: every segment is a run of at least 2 consecutive path points, and each
\* segment after the first starts at the index where the one before it ends.
C7_Contiguous ==
  Resolved =>
    \A j \in 1..Len(Ret.segments) :
      LET sg == Ret.segments[j]
      IN /\ Len(sg.coordinates) >= 2
         /\ sg.from + Len(sg.coordinates) <= Len(CalcPath)
         /\ sg.coordinates = SubSeq(CalcPath, sg.from + 1, sg.from + Len(sg.coordinates))
         /\ j = 1 => sg.from = 0
         /\ j > 1 => sg.from = Ret.segments[j - 1].from
                                 + Len(Ret.segments[j - 1].coordinates) - 1
         /\ j = Len(Ret.segments) => sg.from + Len(sg.coordinates) = Len(CalcPath)

\* C7: a result of three or more segments with a shorter last segment
C7_Witness ==
  /\ Resolved
  /\ Len(Ret.segments) >= 3
  /\ Len(Ret.segments[Len(Ret.segments)].coordinates) < Len(Ret.segments[1].coordinates)
  /\ Ret.segments[2].from = Len(Ret.segments[1].coordinates) - 1

\* C9: for every distance >= 0 and every mix of tags, the empty segment list
\* included, estimatedTime <= distance / 0.2.
C9_SpeedFloor ==
  (Resolved /\ IsNum(Ret.totalDistance) /\ Ret.totalDistance.n >= 0) =>
    RLeq(Ret.estimatedTime, RDiv(Ret.totalDistance, Rat(2, 10)))

\* C9: a route of positive length whose segments are all hazard
C9_Witness ==
  /\ Resolved
  /\ IsNum(Ret.totalDistance) /\ Ret.totalDistance.n > 0
  /\ Len(Ret.segments) >= 2
  /\ \A j \in 1..Len(Ret.segments) : Ret.segments[j].accessibility = "hazard"
  /\ RLeq(Ret.estimatedTime, RDiv(Ret.totalDistance, Rat(2, 10)))

RECURSIVE Tagged(_, _)
Tagged(segs, tag) ==
  IF segs = <<>> THEN 0
  ELSE (IF Head(segs).accessibility = tag THEN 1 ELSE 0) + Tagged(Tail(segs), tag)

\* C10: with s safe, c caution and h hazard segments, n = s+c+h > 0, the time
\* is distance / max((s*1.0 + c*0.65 + h*0.35)/n, 0.2); with no segments it is
\* distance / 1.0.
C10_CountWeighted ==
  (Resolved /\ IsNum(Ret.totalDistance)) =>
    LET s == Tagged(Ret.segments, "safe")
        c == Tagged(Ret.segments, "caution")
        h == Tagged(Ret.segments, "hazard")
        n == s + c + h
    IN /\ n = Len(Ret.segments)
       /\ Ret.estimatedTime =
            IF n = 0 THEN Ret.totalDistance
            ELSE RDiv(Ret.totalDistance,
                      RMax(Rat(s * 100 + c * 65 + h * 35, 100 * n), Rat(1, 5)))

\* C10: a route with segments of every tag and of different lengths
C10_Witness ==
  /\ Resolved
  /\ IsNum(Ret.totalDistance) /\ Ret.totalDistance.n > 0
  /\ Tagged(Ret.segments, "safe") >= 1
  /\ Tagged(Ret.segments, "caution") >= 1
  /\ Tagged(Ret.segments, "hazard") >= 1
  /\ \E j \in 1..Len(Ret.segments) :
       Len(Ret.segments[j].coordinates) # Len(Ret.segments[1].coordinates)

\* C11: the warnings are, in this order, the barrier line naming the hazard
\* segment count if there is a hazard segment, the caution line naming the
\* caution segment count if there is a caution segment, and the advisory line:
\* 1 + [hazard count > 0] + [caution count > 0] lines.
C11_WarningLines ==
  Resolved =>
    LET hc == Tagged(Ret.segments, "hazard")
        cc == Tagged(Ret.segments, "caution")
        w == Ret.warnings
        nh == IF hc > 0 THEN 1 ELSE 0
        nc == IF cc > 0 THEN 1 ELSE 0
    IN /\ Len(w) = 1 + nh + nc
       /\ hc > 0 => /\ w[1].text = "accessibility barrier(s) on this route"
                     /\ w[1].count = hc
                     /\ w[1].plural = (hc > 1)
       /\ cc > 0 => /\ w[nh + 1].text = "caution area(s) - proceed with care"
                     /\ w[nh + 1].count = cc
                     /\ w[nh + 1].plural = (cc > 1)
       /\ w[Len(w)].text = "Verify accessibility features on ground"

\* C11: two hazard segments and one caution segment give three lines
C11_Witness ==
  /\ Resolved
  /\ Tagged(Ret.segments, "hazard") = 2
  /\ Tagged(Ret.segments, "caution") = 1
  /\ Len(Ret.warnings) = 3
  /\ Ret.warnings[1].count = 2 /\ Ret.warnings[2].count = 1

\* C12 as stated: totalDistance is the provider-reported length of a provider
\* path and the sum of the distances between consecutive points of a
\* synthesized fallback path.
C12_SumOfPath ==
  Resolved =>
    Ret.totalDistance =
      IF tryThrows(cResp) THEN Rat(PathSum(CalcPath), 1) ELSE cResp.distance

\* C12: totalDistance is the distance buildResult was handed: the provider's
\* routes[0].distance for a provider path, and 1.25 times the straight-line
\* distance from start to end for the fallback path.
C12_HandedDistance ==
  Resolved =>
    Ret.totalDistance =
      IF tryThrows(cResp)
      THEN Rat(5 * haversine(<<cStart.lat, cStart.lng>>, <<cEnd.lat, cEnd.lng>>), 4)
      ELSE cResp.distance

\* C12: a fallback route whose distance is 1.25 times the straight line and
\* not its path's point-to-point sum
C12_Witness ==
  /\ Resolved /\ tryThrows(cResp)
  /\ Len(CalcPath) >= 2
  /\ Ret.totalDistance # Rat(PathSum(CalcPath), 1)
  /\ Ret.totalDistance =
       Rat(5 * haversine(<<cStart.lat, cStart.lng>>, <<cEnd.lat, cEnd.lng>>), 4)

\* C13: the fallback path has exactly 26 points.
C13_TwentySixPoints ==
  (Resolved /\ tryThrows(cResp)) =>
    /\ Len(CalcPath) = 26
    /\ Len(Reassemble(Ret.segments)) = 26

C15_FallbackDistance ==
  (Resolved /\ tryThrows(cResp)) =>
    /\ IsNum(Ret.totalDistance)
    /\ 4 * Ret.totalDistance.n =
         5 * haversine(<<cStart.lat, cStart.lng>>, <<cEnd.lat, cEnd.lng>>)
           * Ret.totalDistance.d

\* C15: a fallback route with hazards near it and a bent path
C15_Witness ==
  /\ Resolved /\ tryThrows(cResp)
  /\ cHazards # <<>>
  /\ Tagged(Ret.segments, "hazard") >= 1
  /\ cStart.lat # cEnd.lat /\ cStart.lng # cEnd.lng
  /\ Ret.totalDistance.n > 0

\* the positions in the hazard list of the points less than 30 m from a point
\* of the chunk
Within30(sl, hazards) ==
  {hi \in 1..Len(hazards) :
     \E ci \in 1..Len(sl) : haversine(sl[ci], <<hazards[hi].lat, hazards[hi].lng>>) < 30}

\* C25: a segment's tag is decided by the first point of the hazard list
\* that is less than 30 m from a point of its chunk: hazard, caution, or safe
\* for an info point; it is safe when the list has no such point.
C25_FirstMatchDecides ==
  Resolved =>
    \A j \in 1..Len(Ret.segments) :
      LET near == Within30(Ret.segments[j].coordinates, cHazards)
          first == CHOOSE hi \in near : \A other \in near : hi <= other
      IN  Ret.segments[j].accessibility =
            IF near = {} THEN "safe"
            ELSE CASE cHazards[first].type = "hazard" -> "hazard"
                   [] cHazards[first].type = "caution" -> "caution"
                   [] cHazards[first].type = "info" -> "safe"

\* C25: a segment near an info point and near a hazard point later in the
\* list is tagged safe, and a segment whose only listed point is a hazard
\* point exactly 30 m away is too
C25_Witness ==
  /\ Resolved
  /\ \E j \in 1..Len(Ret.segments) :
       LET sl == Ret.segments[j].coordinates
       IN  /\ Ret.segments[j].accessibility = "safe"
           /\ \/ /\ Len(cHazards) = 2
                 /\ cHazards[1].type = "info" /\ cHazards[2].type = "hazard"
                 /\ Within30(sl, cHazards) = {1, 2}
              \/ /\ Len(cHazards) = 1 /\ cHazards[1].type = "hazard"
                 /\ \E ci \in 1..Len(sl) :
                      haversine(sl[ci], <<cHazards[1].lat, cHazards[1].lng>>) = 30


--------------------------------------------------------------------------
\* The Index component: route requests and reports (map.tsx:734-784, 832-833,
\* 876-883), the report store (map.tsx:189-194) and the backend's POST /reports
\* (reports.js:4-31)

KU_CENTER == Point(0, 0)

\* the seeded catalog, its offsets from KU_CENTER at 10 m per 0.0001 degree
getKUAccessibilityPoints ==
  << Hazard(100, 50, "info", "ramp"),
     Hazard(-150, -100, "info", "ramp"),
     Hazard(50, -200, "info", "ramp"),
     Hazard(200, 150, "info", "elevator"),
     Hazard(200, 150, "info", "elevator"),
     Hazard(-50, 250, "info", "elevator"),
     Hazard(0, 100, "info", "washroom"),
     Hazard(-80, -300, "info", "washroom"),
     Hazard(180, -50, "info", "bench"),
     Hazard(-120, 180, "info", "bench"),
     Hazard(250, -120, "info", "tactile_paving"),
     Hazard(80, 300, "hazard", "pothole"),
     Hazard(-200, 80, "hazard", "pothole"),
     Hazard(300, -180, "hazard", "stairs"),
     Hazard(-250, -150, "hazard", "stairs"),
     Hazard(120, 200, "hazard", "broken_ramp"),
     Hazard(-300, 50, "hazard", "construction"),
     Hazard(50, -120, "caution", "narrow_path"),
     Hazard(-180, 300, "caution", "narrow_path"),
     Hazard(220, 0, "caution", "wet_floor"),
     Hazard(-100, -250, "caution", "no_elevator") >>

\* where the user puts markers, where reports are pinned, what ids
\* Math.random().toString(36) comes to, and what the provider answers
UIPoints == {Point(0, 0), Point(48, 120)}
ReportSites == {Point(24, 100)}
ReportIds == {"r1"}
ReportTypes == {"pothole"}
\* ids are Math.random().toString(36).substr(2,9): two calls can give the same
StoreIds == {"r1", "r2"}
\* 'pothole' is a hazard-class issue type, 'wet_floor' a caution-class one
IssueTypes == {"pothole", "wet_floor"}
UIResponses ==
  {[kind |-> "transport_error", coordinates |-> <<>>, distance |-> Undefined],
   [kind |-> "ok", coordinates |-> lineBody(3), distance |-> Rat(20, 1)]}

\* an IssueReport: timestamp is the hour new Date() gave
Report(i, la, lo, t, ts) == [id |-> i, lat |-> la, lng |-> lo, type |-> t, timestamp |-> ts]

\* reports found in localStorage when the component mounts
ReportValues ==
  {Report(i, p.lat, p.lng, t, 0) : i \in ReportIds, p \in ReportSites, t \in ReportTypes}

\* INTERVAL '48 hours'
TTL_HOURS == 48

\* localStorage: "set" is setItem throwing (quota), "both" is getItem and
\* setItem throwing (storage disabled), "parse" is an item whose text is not
\* JSON (stored is then the array the undamaged text held)
Faults == {"none", "set", "both", "parse"}
getItemThrows(fault) == fault = "both"
setItemThrows(fault) == fault \in {"set", "both"}
parseThrows(fault) == fault = "parse"

\* getReports(): try { r = getItem(KEY); return r ? JSON.parse(r) : [] } catch { return [] }
getReports(st, fault) ==
  IF getItemThrows(fault) \/ parseThrows(fault) THEN <<>> ELSE st

\* localStorage.setItem(KEY, JSON.stringify(value)): the outcome is whether it
\* threw, and the item and the fault after it; a write replaces damaged text
setItem(st, fault, value) ==
  IF setItemThrows(fault)
  THEN [threw |-> TRUE, stored |-> st, fault |-> fault]
  ELSE [threw |-> FALSE, stored |-> value,
        fault |-> IF parseThrows(fault) THEN "none" ELSE fault]

\* [...aPoints, ...reports.map(r => ({lat, lng, type:'hazard', category:r.type}))]
combined_categorySeverity(ap, rs) ==
  ap \o [j \in 1..Len(rs) |->
           Hazard(rs[j].lat, rs[j].lng,
                  IF rs[j].type = "wet_floor" THEN "caution" ELSE "hazard", rs[j].type)]

combined(ap, rs) ==
  ap \o [j \in 1..Len(rs) |-> Hazard(rs[j].lat, rs[j].lng, "hazard", rs[j].type)]

\* calcRoute tabulated over the calls the component can make
UIHazardLists ==
  {combined(getKUAccessibilityPoints, rs) :
     rs \in SeqsUpTo({Report("r1", p.lat, p.lng, t, 0) : p \in ReportSites, t \in IssueTypes},
                     MaxReports)}
calcRouteOf ==
  [st \in UIPoints \cup {KU_CENTER}, en \in UIPoints, hz \in UIHazardLists, resp \in UIResponses |->
     calcRoute(st, en, hz, resp)]

\* the state after the mount effect: the catalog and the stored reports are loaded
Init ==
  /\ startPoint = <<>> /\ endPoint = <<>>
  /\ aPoints = getKUAccessibilityPoints
  /\ stored \in SeqsUpTo(ReportValues, MaxReports)
  /\ lsFault = "none"
  /\ reports = getReports(stored, lsFault)
  /\ route = <<>> /\ isRouting = FALSE
  /\ pending = {} /\ issued = 0 /\ shown = 0 /\ latest = <<>>
  /\ now = 0 /\ log = <<>> /\ dbReports = <<>>
  /\ CalcIdle
  /\ GenIdle
  /\ ExtIdle

\* useEffect(() => { if(startPoint&&endPoint) doRoute(); }, [startPoint,endPoint])
\* after a render with start sp and end ep, up to doRoute's await: the call
\* keeps the start, end and hazard list of that render
routeEffect(sp, ep) ==
  IF sp # <<>> /\ ep # <<>>
  THEN /\ issued < MaxRequests
       /\ issued' = issued + 1
       /\ latest' = <<>>
       /\ isRouting' = TRUE
       /\ pending' = pending \cup
            {[id |-> issued + 1, start |-> sp[1], end |-> ep[1],
              hazards |-> combined(aPoints, reports)]}
  ELSE UNCHANGED <<issued, isRouting, pending, latest>>

handleSetStart(p) ==
  /\ startPoint' = <<p>>
  /\ routeEffect(<<p>>, endPoint)
  /\ UNCHANGED <<endPoint, aPoints, reports, stored, route, shown>>
  /\ UNCHANGED <<now, lsFault, log, dbReports>>
  /\ UNCHANGED <<calcVars, genVars, extVars>>

\* handleSetEnd, and a map click with no marker mode: the start defaults to
\* KU_CENTER (myLoc is null: the location was not shared)
handleSetEnd(p) ==
  /\ endPoint' = <<p>>
  /\ startPoint' = IF startPoint = <<>> THEN <<KU_CENTER>> ELSE startPoint
  /\ routeEffect(startPoint', <<p>>)
  /\ UNCHANGED <<aPoints, reports, stored, route, shown>>
  /\ UNCHANGED <<now, lsFault, log, dbReports>>
  /\ UNCHANGED <<calcVars, genVars, extVars>>

\* handleMapClick with settingMkr = 'B': the end alone
placeMarkerB(p) ==
  /\ endPoint' = <<p>>
  /\ routeEffect(startPoint, <<p>>)
  /\ UNCHANGED <<startPoint, aPoints, reports, stored, route, shown>>
  /\ UNCHANGED <<now, lsFault, log, dbReports>>
  /\ UNCHANGED <<calcVars, genVars, extVars>>

handleSwap ==
  /\ startPoint # <<>> \/ endPoint # <<>>
  /\ startPoint' = endPoint
  /\ endPoint' = startPoint
  /\ routeEffect(endPoint, startPoint)
  /\ UNCHANGED <<aPoints, reports, stored, route, shown>>
  /\ UNCHANGED <<now, lsFault, log, dbReports>>
  /\ UNCHANGED <<calcVars, genVars, extVars>>

handleClear ==
  /\ route' = <<>>
  /\ endPoint' = <<>>
  /\ startPoint' = <<>>
  /\ shown' = 0
  /\ UNCHANGED <<aPoints, reports, stored, isRouting, pending, issued, latest>>
  /\ UNCHANGED <<now, lsFault, log, dbReports>>
  /\ UNCHANGED <<calcVars, genVars, extVars>>

\* RoutePanel onClose: setRoute(null)
closeRoutePanel ==
  /\ route # <<>>
  /\ route' = <<>>
  /\ shown' = 0
  /\ UNCHANGED <<startPoint, endPoint, aPoints, reports, stored, isRouting, pending, issued, latest>>
  /\ UNCHANGED <<now, lsFault, log, dbReports>>
  /\ UNCHANGED <<calcVars, genVars, extVars>>

\* doRoute after its await: calcRoute resolved for call req
doRouteResume(req, resp) ==
  /\ req \in pending
  /\ route' = <<calcRouteOf[req.start, req.end, req.hazards, resp]>>
  /\ isRouting' = FALSE
  /\ pending' = pending \ {req}
  /\ shown' = req.id
  /\ latest' = IF req.id = issued THEN route' ELSE latest
  /\ UNCHANGED <<startPoint, endPoint, aPoints, reports, stored, issued>>
  /\ UNCHANGED <<now, lsFault, log, dbReports>>
  /\ UNCHANGED <<calcVars, genVars, extVars>>

\* saveReport(r): nr = {...r, id, timestamp}; all = getReports(); all.push(nr); setItem
saveReport_prepend(st, fault, r, newId, ts) ==
  setItem(st, fault, <<Report(newId, r.lat, r.lng, r.type, ts)>> \o getReports(st, fault))

saveReport(st, fault, r, newId, ts) ==
  setItem(st, fault, Append(getReports(st, fault), Report(newId, r.lat, r.lng, r.type, ts)))

\* deleteReport(id): setItem(getReports().filter(r => r.id !== id))
deleteReport(st, fault, id) ==
  setItem(st, fault, SelectSeq(getReports(st, fault), LAMBDA r : r.id # id))

\* onReportSubmit: saveReport(...); setReports(getReports()); a throw in
\* saveReport ends the handler before setReports
\* the submit handler as it would be if the reports were a dependency of the
\* route effect
onReportSubmit_reroute(p, t, newId) ==
  LET out == saveReport(stored, lsFault, [lat |-> p.lat, lng |-> p.lng, type |-> t], newId, now)
  IN /\ Len(stored) < MaxReports
     /\ stored' = out.stored
     /\ lsFault' = out.fault
     /\ reports' = IF out.threw THEN reports ELSE getReports(out.stored, out.fault)
     /\ routeEffect(startPoint, endPoint)
     /\ UNCHANGED <<startPoint, endPoint, aPoints, route, shown>>
     /\ UNCHANGED <<now, dbReports>>
     /\ UNCHANGED <<calcVars, genVars, extVars>>

onReportSubmit(p, t, newId) ==
  LET out == saveReport(stored, lsFault, [lat |-> p.lat, lng |-> p.lng, type |-> t], newId, now)
  IN /\ Len(stored) < MaxReports
     /\ stored' = out.stored
     /\ lsFault' = out.fault
     /\ reports' = IF out.threw THEN reports ELSE getReports(out.stored, out.fault)
     /\ UNCHANGED <<startPoint, endPoint, aPoints, route, isRouting, pending, issued, shown, latest>>
     /\ UNCHANGED <<now, dbReports>>
     /\ UNCHANGED <<calcVars, genVars, extVars>>

\* onDeleteReport (the delete button of a listed report): deleteReport(id);
\* setReports(getReports())
onDeleteReport(id) ==
  LET out == deleteReport(stored, lsFault, id)
  IN /\ \E j \in 1..Len(reports) : reports[j].id = id
     /\ stored' = out.stored
     /\ lsFault' = out.fault
     /\ reports' = IF out.threw THEN reports ELSE getReports(out.stored, out.fault)
     /\ UNCHANGED <<startPoint, endPoint, aPoints, route, isRouting, pending, issued, shown, latest>>
     /\ UNCHANGED <<now, dbReports>>
     /\ UNCHANGED <<calcVars, genVars, extVars>>

\* time passes: two days
Tick ==
  /\ now + 48 <= MaxClock
  /\ now' = now + 48
  /\ UNCHANGED <<startPoint, endPoint, aPoints, reports, route, isRouting, stored,
                 pending, issued, shown, latest, lsFault, log, dbReports>>
  /\ UNCHANGED <<calcVars, genVars, extVars>>

\* POST /reports (backend): 400 when a required field is missing, else a row
\* with created_at = NOW() and expires_at = NOW() + INTERVAL '48 hours'
RequestBodies ==
  {[issue_type |-> t, description |-> "d", lat |-> p.lat, lng |-> p.lng] :
     t \in {"", "pothole"}, p \in ReportSites}
createReport(body) ==
  /\ Len(dbReports) < MaxRows
  /\ dbReports' =
       IF body.issue_type = "" \/ body.description = "" \/ body.lat = 0 \/ body.lng = 0
       THEN dbReports
       ELSE Append(dbReports,
                   [issue_type |-> body.issue_type, lat |-> body.lat, lng |-> body.lng,
                    is_active |-> TRUE, created_at |-> now,
                    expires_at |-> now + TTL_HOURS])
  /\ UNCHANGED <<startPoint, endPoint, aPoints, reports, route, isRouting, stored,
                 pending, issued, shown, latest, now, lsFault, log>>
  /\ UNCHANGED <<calcVars, genVars, extVars>>

Next ==
  \/ \E p \in UIPoints : handleSetStart(p)
  \/ \E p \in UIPoints : handleSetEnd(p)
  \/ \E p \in UIPoints : placeMarkerB(p)
  \/ handleSwap
  \/ handleClear
  \/ closeRoutePanel
  \/ \E req \in pending : \E resp \in UIResponses : doRouteResume(req, resp)
  \/ \E p \in ReportSites : \E t \in ReportTypes : \E i \in ReportIds :
       onReportSubmit(p, t, i) /\ UNCHANGED log
  \/ \E i \in ReportIds : onDeleteReport(i) /\ UNCHANGED log

Spec == Init /\ [][Next]_vars

--------------------------------------------------------------------------
\* The Index component in a browser with nothing stored yet

FreshInit ==
  /\ startPoint = <<>> /\ endPoint = <<>>
  /\ aPoints = getKUAccessibilityPoints
  /\ stored = <<>>
  /\ lsFault = "none"
  /\ reports = getReports(stored, lsFault)
  /\ route = <<>> /\ isRouting = FALSE
  /\ pending = {} /\ issued = 0 /\ shown = 0 /\ latest = <<>>
  /\ now = 0 /\ log = <<>> /\ dbReports = <<>>
  /\ CalcIdle
  /\ GenIdle
  /\ ExtIdle

\* Reports over time: a user who picks destinations and files and deletes
\* reports of either class while days pass, and the backend's report endpoint
ReportsNext ==
  \/ \E p \in UIPoints : issued < MaxAsked /\ handleSetEnd(p)
  \/ \E req \in pending : \E resp \in UIResponses : doRouteResume(req, resp)
  \/ \E p \in ReportSites : \E t \in IssueTypes : \E i \in ReportIds :
       onReportSubmit(p, t, i) /\ UNCHANGED log
  \/ \E i \in ReportIds : onDeleteReport(i) /\ UNCHANGED log
  \/ Tick
  \/ \E body \in RequestBodies : createReport(body)

SpecReports == FreshInit /\ [][ReportsNext]_vars

\* the entries of the stored reports st that have not expired at hour t
RECURSIVE ActiveEntries(_, _)
ActiveEntries(st, t) ==
  IF st = <<>> THEN <<>>
  ELSE (IF t < Head(st).timestamp + TTL_HOURS
        THEN <<Hazard(Head(st).lat, Head(st).lng, "hazard", Head(st).type)>>
        ELSE <<>>) \o ActiveEntries(Tail(st), t)

\* C16: a report created at hour T counts as a hazard for every route request
\* issued before T + 48 and for none issued from T + 48 on, deleted or not:
\* the list a request is issued with is the catalog and the unexpired reports.
C16_ExpiresAfter48h ==
  [][\A req \in pending' \ pending :
       req.hazards = getKUAccessibilityPoints \o ActiveEntries(stored, now)]_vars

\* C17: the hazard list a route request is issued with is the catalog in its
\* order followed by one entry per stored report in stored order, each with
\* the report's coordinates and severity 'hazard' whatever its issue type; no
\* entry is dropped, so the length is the catalog's plus the report count.
C17_CatalogThenReports ==
  [][\A req \in pending' \ pending :
       LET h == req.hazards
           n == Len(getKUAccessibilityPoints)
       IN /\ Len(h) = n + Len(stored)
          /\ \A j \in 1..n : h[j] = getKUAccessibilityPoints[j]
          /\ \A j \in 1..Len(stored) :
               /\ h[n + j].lat = stored[j].lat
               /\ h[n + j].lng = stored[j].lng
               /\ h[n + j].type = "hazard"
               /\ h[n + j].category = stored[j].type]_vars

\* C17: a request issued with two reports at the same coordinates, one of a
\* hazard-class and one of a caution-class issue type, in that order
C17_Witness ==
  \E req \in pending :
    LET h == req.hazards
        n == Len(getKUAccessibilityPoints)
    IN /\ Len(stored) = 2 /\ Len(h) = n + 2
       /\ stored[1].type = "pothole" /\ stored[2].type = "wet_floor"
       /\ h[n + 1].lat = h[n + 2].lat /\ h[n + 1].lng = h[n + 2].lng
       /\ h[n + 1].category = "pothole" /\ h[n + 2].category = "wet_floor"
       /\ h[n + 2].type = "hazard"

\* The report store: reports filed and deleted while localStorage comes and goes

\* localStorage starts or stops failing, or the item's text gets damaged;
\* damaged text stays damaged until it is written over
storageFault(f) ==
  /\ lsFault # "parse"
  /\ f # lsFault
  /\ lsFault' = f
  /\ UNCHANGED <<startPoint, endPoint, aPoints, reports, route, isRouting, stored,
                 pending, issued, shown, latest, now, log, dbReports>>
  /\ UNCHANGED <<calcVars, genVars, extVars>>

\* the record of one store call: what was called with what, under which
\* fault, whether it threw, and the stored reports before it
logCall(op, r) ==
  /\ Len(log) < MaxOps
  /\ log' = Append(log, [op |-> op, report |-> r, fault |-> lsFault,
                          threw |-> setItemThrows(lsFault), before |-> stored])

StoreNext ==
  \/ \E p \in ReportSites : \E t \in ReportTypes : \E i \in StoreIds :
       onReportSubmit(p, t, i) /\ logCall("create", Report(i, p.lat, p.lng, t, now))
  \/ \E i \in StoreIds : onDeleteReport(i) /\ logCall("delete", Report(i, 0, 0, "", 0))
  \/ \E f \in Faults : storageFault(f)

SpecStore == FreshInit /\ [][StoreNext]_vars

LastCall == log[Len(log)]

\* the reports that, going by the calls alone, were created and not deleted
\* since, in creation order
RECURSIVE Live(_)
Live(lg) ==
  IF lg = <<>> THEN <<>>
  ELSE LET e == lg[Len(lg)]
           prev == Live(SubSeq(lg, 1, Len(lg) - 1))
       IN IF e.op = "create" THEN Append(prev, e.report)
          ELSE SelectSeq(prev, LAMBDA r : r.id # e.report.id)

\* localStorage works and worked at every call so far
NoFault == lsFault = "none" /\ \A j \in 1..Len(log) : log[j].fault = "none"

\* C18: while storage works, after any sequence of creates and deletes the
\* list is exactly the reports created and not deleted (by id) since, in
\* creation order; the report just created is the list's last entry, and no
\* report with the id just deleted is in the list.
C18_CreatedNotDeleted ==
  NoFault =>
    /\ getReports(stored, lsFault) = Live(log)
    /\ reports = Live(log)
    /\ (log # <<>> /\ LastCall.op = "create") =>
         /\ stored # <<>>
         /\ stored[Len(stored)] = LastCall.report
    /\ (log # <<>> /\ LastCall.op = "delete") =>
         \A j \in 1..Len(stored) : stored[j].id # LastCall.report.id

\* C18: two reports with different ids were created and the first was deleted
C18_Witness ==
  /\ NoFault
  /\ Len(log) = 3
  /\ log[1].op = "create" /\ log[2].op = "create" /\ log[3].op = "delete"
  /\ log[1].report.id # log[2].report.id
  /\ log[3].report.id = log[1].report.id
  /\ reports = <<log[2].report>>

\* C19: delete(id) removes exactly one report, the one with that id; every
\* other report stays, same fields, same order; with no such report stored
\* nothing changes. For every id create can give a report.
C19_ExactlyOne ==
  (log # <<>> /\ LastCall.op = "delete" /\ LastCall.fault = "none") =>
    LET before == LastCall.before
        hits == {j \in 1..Len(before) : before[j].id = LastCall.report.id}
    IN IF hits = {} THEN stored = before
       ELSE \E k \in hits :
              stored = SubSeq(before, 1, k - 1) \o SubSeq(before, k + 1, Len(before))

\* what was stored right after call j
StoredAfter(j) == IF j < Len(log) THEN log[j + 1].before ELSE stored

\* C20: with localStorage unavailable (getItem or setItem throws, or the text
\* does not parse), the list is empty when it cannot be read, and create and
\* delete return without throwing and leave what was stored as it was.
C20_FailClosed ==
  /\ (getItemThrows(lsFault) \/ parseThrows(lsFault)) => getReports(stored, lsFault) = <<>>
  /\ \A j \in 1..Len(log) :
       log[j].fault # "none" =>
         /\ ~log[j].threw
         /\ StoredAfter(j) = log[j].before

\* C3: once no route request is waiting, a displayed route is the result of
\* the most recently issued request: an earlier request's response that
\* arrives later has not replaced it.
C3_LatestWins ==
  (pending = {} /\ route # <<>>) => route = latest

\* C26: isRouting is true exactly while a route request is waiting for its
\* provider response.
C26_RoutingWhilePending ==
  isRouting <=> pending # {}

\* C27: a route is on display only while a start and an end are set: after
\* handleClear has set them to null, no response puts a route back.
C27_ClearedStaysCleared ==
  route # <<>> => (startPoint # <<>> /\ endPoint # <<>>)

\* C28: a step that changes the reports (a submit or a delete) issues no
\* route request and leaves the displayed route, the waiting requests and
\* isRouting as they were.
C28_ReportsLeaveRoute ==
  [][(reports' # reports \/ stored' # stored) =>
       /\ route' = route
       /\ issued' = issued
       /\ pending' = pending
       /\ isRouting' = isRouting]_vars

\* the tags of a result's segments
SegTags(res) == [j \in 1..Len(res.segments) |-> res.segments[j].accessibility]

\* C28: the one request ever issued has resolved, start and end are as it
\* left them, and the reports have changed since: the displayed tags are not
\* those the current hazard list would give, whatever the provider answered
C28_Witness ==
  /\ issued = 1 /\ pending = {} /\ shown = 1
  /\ route # <<>> /\ startPoint # <<>> /\ endPoint # <<>>
  /\ \A resp \in UIResponses :
       SegTags(route[1]) #
         SegTags(calcRouteOf[startPoint[1], endPoint[1], combined(aPoints, reports), resp])


--------------------------------------------------------------------------
\* generateEnhancedAccessibilitySegments of the older map component
\* (part_006:621-662). Inclines and Math.random() draws are in thousandths.

\* Math.sin(i * 0.2) * 6 for the loop indices i = 0..12, rounded
sinTimes6 == <<0, 1192, 2337, 3388, 4304, 5049, 5592, 5913, 5997, 5843, 5456, 4851, 4053>>

\* the values a Math.random() call is taken to return: 0.1 and 0.9
RandomDraws == {100, 900}

genNumSegments(len) == Max(5, FloorDiv(len, 6))
genChunkSize(len) == CeilDiv(len, genNumSegments(len))

\* the tag of one chunk from its incline draw r1 and the two threshold draws
genAccessibility(incline, r2, r3) ==
  IF incline < 3000 /\ r2 > 300 THEN "safe"
  ELSE IF incline < 6000 /\ r3 > 200 THEN "caution"
  ELSE "hazard"

\* the loop from index i on; draw[i] are the three draws of the iteration at
\* i (surface and description are further draws that feed nothing else)
RECURSIVE genSegs(_, _, _, _)
genSegs(coords, chunk, i, draw) ==
  IF ~(i < Len(coords)) THEN <<>>
  ELSE LET end == Min(i + chunk + 1, Len(coords))
           ch == slice(coords, i, end)
           incline == sinTimes6[i + 1] + 4 * draw[i][1]
           rest == genSegs(coords, chunk, i + chunk, draw)
       IN IF Len(ch) < 2 THEN rest
          ELSE <<[coordinates |-> ch,
                  accessibility |-> genAccessibility(incline, draw[i][2], draw[i][3]),
                  incline |-> incline]>> \o rest

generateEnhancedAccessibilitySegments(coords, draw) ==
  genSegs(coords, genChunkSize(Len(coords)), 0, draw)

lineCoords(len) == swapLngLat(lineBody(len))

GenInit ==
  /\ gCoords \in {lineCoords(len) : len \in 2..MaxGenLen}
  /\ gRuns = <<>>
  /\ UiIdle
  /\ CalcIdle
  /\ ExtIdle

\* one more run on the same path, with whatever Math.random() returns in it
GenRun ==
  /\ Len(gRuns) < 2
  /\ \E draw \in [0..(Len(gCoords) - 1) -> RandomDraws \X RandomDraws \X RandomDraws] :
       gRuns' = Append(gRuns, generateEnhancedAccessibilitySegments(gCoords, draw))
  /\ UNCHANGED <<gCoords, uiVars, calcVars, extVars>>

GenNext == GenRun

SpecGen == GenInit /\ [][GenNext]_vars

Tags(segs) == [j \in 1..Len(segs) |-> segs[j].accessibility]

\* C8: two runs on the same path (and the same hazard list) give every
\* segment the same accessibility tag.
C8_SameTags == Len(gRuns) = 2 => Tags(gRuns[1]) = Tags(gRuns[2])

--------------------------------------------------------------------------
\* Place search: searchPlaces and the search box's debounce effect, in the
\* campus map (map.tsx:100-126, 251-279) and in the older city map
\* (part_006:239-345, 787-811). A result's id, a rendering key, is left out.

\* Text is a sequence of characters; coordinates are degrees times 10^4.
toLowerCase(s) ==
  LET lowerOf ==
        [A |-> "a", B |-> "b", C |-> "c", D |-> "d", E |-> "e", F |-> "f", G |-> "g",
         H |-> "h", I |-> "i", J |-> "j", K |-> "k", L |-> "l", M |-> "m", N |-> "n",
         O |-> "o", P |-> "p", Q |-> "q", R |-> "r", S |-> "s", T |-> "t", U |-> "u",
         V |-> "v", W |-> "w", X |-> "x", Y |-> "y", Z |-> "z"]
  IN  [j \in 1..Len(s) |-> IF s[j] \in DOMAIN lowerOf THEN lowerOf[s[j]] ELSE s[j]]
includes(s, sub) ==
  \E i \in 0..(Len(s) - Len(sub)) : SubSeq(s, i + 1, i + Len(sub)) = sub

KU_PLACES ==
  <<[name |-> <<"M", "a", "i", "n", " ", "G", "a", "t", "e">>,
     displayName |-> <<"K", "U", " ", "M", "a", "i", "n", " ", "G", "a", "t", "e", ",",
                       " ", "D", "h", "u", "l", "i", "k", "e", "l">>,
     lat |-> 276208, lng |-> 855375, type |-> "gate", accessibilityScore |-> 9],
    [name |-> <<"C", "e", "n", "t", "r", "a", "l", " ", "L", "i", "b", "r", "a", "r",
                "y">>,
     displayName |-> <<"K", "U", " ", "C", "e", "n", "t", "r", "a", "l", " ", "L", "i",
                       "b", "r", "a", "r", "y">>,
     lat |-> 276200, lng |-> 855368, type |-> "library", accessibilityScore |-> 8],
    [name |-> <<"S", "c", "h", "o", "o", "l", " ", "o", "f", " ", "E", "n", "g", "i",
                "n", "e", "e", "r", "i", "n", "g">>,
     displayName |-> <<"S", "o", "E", ",", " ", "K", "a", "t", "h", "m", "a", "n", "d",
                       "u", " ", "U", "n", "i", "v", "e", "r", "s", "i", "t", "y">>,
     lat |-> 276190, lng |-> 855380, type |-> "building", accessibilityScore |-> 6],
    [name |-> <<"A", "d", "m", "i", "n", " ", "B", "l", "o", "c", "k">>,
     displayName |-> <<"A", "d", "m", "i", "n", "i", "s", "t", "r", "a", "t", "i", "v",
                       "e", " ", "B", "l", "o", "c", "k", ",", " ", "K", "U">>,
     lat |-> 276196, lng |-> 855395, type |-> "admin", accessibilityScore |-> 8],
    [name |-> <<"K", "U", " ", "H", "o", "s", "p", "i", "t", "a", "l", " ", "/", " ",
                "K", "U", "S", "O", "M">>,
     displayName |-> <<"K", "U", " ", "H", "o", "s", "p", "i", "t", "a", "l", " ", "&",
                       " ", "S", "c", "h", "o", "o", "l", " ", "o", "f", " ", "M", "e",
                       "d", "i", "c", "i", "n", "e">>,
     lat |-> 276180, lng |-> 855355, type |-> "hospital", accessibilityScore |-> 9],
    [name |-> <<"C", "a", "f", "e", "t", "e", "r", "i", "a">>,
     displayName |-> <<"M", "a", "i", "n", " ", "C", "a", "f", "e", "t", "e", "r", "i",
                       "a", ",", " ", "K", "U", " ", "C", "a", "m", "p", "u", "s">>,
     lat |-> 276198, lng |-> 855378, type |-> "food", accessibilityScore |-> 7],
    [name |-> <<"S", "p", "o", "r", "t", "s", " ", "C", "o", "m", "p", "l", "e", "x">>,
     displayName |-> <<"K", "U", " ", "S", "p", "o", "r", "t", "s", " ", "C", "o", "m",
                       "p", "l", "e", "x">>,
     lat |-> 276210, lng |-> 855400, type |-> "sport", accessibilityScore |-> 5],
    [name |-> <<"A", "m", "p", "h", "i", "t", "h", "e", "a", "t", "r", "e">>,
     displayName |-> <<"O", "p", "e", "n", " ", "A", "m", "p", "h", "i", "t", "h", "e",
                       "a", "t", "r", "e", ",", " ", "K", "U">>,
     lat |-> 276192, lng |-> 855370, type |-> "venue", accessibilityScore |-> 7],
    [name |-> <<"I", "T", " ", "B", "u", "i", "l", "d", "i", "n", "g">>,
     displayName |-> <<"D", "e", "p", "t", ".", " ", "o", "f", " ", "C", "S", " ", "&",
                       " ", "I", "T", ",", " ", "K", "U">>,
     lat |-> 276185, lng |-> 855388, type |-> "building", accessibilityScore |-> 6],
    [name |-> <<"H", "o", "s", "t", "e", "l", " ", "A", "r", "e", "a">>,
     displayName |-> <<"S", "t", "u", "d", "e", "n", "t", " ", "H", "o", "s", "t", "e",
                       "l", " ", "B", "l", "o", "c", "k", ",", " ", "K", "U">>,
     lat |-> 276175, lng |-> 855375, type |-> "hostel", accessibilityScore |-> 5],
    [name |-> <<"P", "h", "a", "r", "m", "a", "c", "y", " ", "B", "l", "o", "c", "k">>,
     displayName |-> <<"S", "c", "h", "o", "o", "l", " ", "o", "f", " ", "P", "h", "a",
                       "r", "m", "a", "c", "y", ",", " ", "K", "U">>,
     lat |-> 276202, lng |-> 855360, type |-> "building", accessibilityScore |-> 4],
    [name |-> <<"C", "i", "v", "i", "l", " ", "E", "n", "g", "i", "n", "e", "e", "r",
                "i", "n", "g">>,
     displayName |-> <<"D", "e", "p", "t", ".", " ", "o", "f", " ", "C", "i", "v", "i",
                       "l", " ", "E", "n", "g", "i", "n", "e", "e", "r", "i", "n", "g",
                       ",", " ", "K", "U">>,
     lat |-> 276188, lng |-> 855398, type |-> "building", accessibilityScore |-> 6]>>

MaxSearches == 2

\* parseFloat of a decimal numeral with at most four fraction digits, in
\* degrees times 10^4
parseFloat(s) ==
  LET digits == <<"0", "1", "2", "3", "4", "5", "6", "7", "8", "9">>
      digitOf(c) == (CHOOSE i \in 1..10 : digits[i] = c) - 1
      RECURSIVE valueOf(_)
      valueOf(t) ==
        IF t = <<>> THEN 0
        ELSE 10 * valueOf(SubSeq(t, 1, Len(t) - 1)) + digitOf(t[Len(t)])
      RECURSIVE pow10(_)
      pow10(n) == IF n = 0 THEN 1 ELSE 10 * pow10(n - 1)
      dot == CHOOSE i \in 1..Len(s) : s[i] = "."
      frac == SubSeq(s, dot + 1, Len(s))
  IN  valueOf(SubSeq(s, 1, dot - 1)) * 10000 + valueOf(frac) * pow10(4 - Len(frac))

\* s.split(',')[0]
beforeComma(s) ==
  IF \E i \in 1..Len(s) : s[i] = ","
    THEN SubSeq(s, 1, (CHOOSE i \in 1..Len(s) :
                         s[i] = "," /\ \A j \in 1..(i - 1) : s[j] # ",") - 1)
    ELSE s

\* What one provider call does: fetch rejects or resolves, with a status
\* that is 2xx or not and a body that is not JSON ("html"), a JSON object
\* or a JSON list, empty or of the one place the provider knows.
SearchResponses ==
  {[fetch |-> "rejects", ok |-> FALSE, body |-> "none", items |-> <<>>]} \cup
  {[fetch |-> "resolves", ok |-> o, body |-> b, items |-> <<>>] :
     o \in BOOLEAN, b \in {"html", "object", "list"}} \cup
  {[fetch |-> "resolves", ok |-> o, body |-> "list",
    items |-> <<[place_id |-> 42,
                 display_name |-> <<"Z", "o", "o", ",", " ", "N", "P">>,
                 lat |-> <<"2", "7", ".", "6", "7">>,
                 lon |-> <<"8", "5", ".", "3", "1", "1">>,
                 type |-> "hospital"]>>] :
     o \in BOOLEAN}

\* data.map(...) of map.tsx:123
mapItems(data) ==
  [j \in 1..Len(data) |->
     [name |-> IF beforeComma(data[j].display_name) # <<>>
                 THEN beforeComma(data[j].display_name)
                 ELSE <<"U", "n", "k", "n", "o", "w", "n">>,
      displayName |-> data[j].display_name,
      lat |-> parseFloat(data[j].lat), lng |-> parseFloat(data[j].lon),
      type |-> data[j].type, accessibilityScore |-> 5]]

\* KU_PLACES.filter(...) of map.tsx:119
local(q) ==
  SelectSeq(KU_PLACES,
            LAMBDA p : \/ includes(toLowerCase(p.name), toLowerCase(q))
                       \/ includes(toLowerCase(p.displayName), toLowerCase(q)))

\* the try block of map.tsx:121-124 throws: fetch rejects, res.json()
\* rejects, or data.map is not a function. The status is not looked at.
searchTryThrows(resp) ==
  resp.fetch = "rejects" \/ resp.body = "html" \/ resp.body = "object"

\* searchPlaces of the campus map, given what the provider call does
searchPlaces(q, resp) ==
  IF Len(q) < 2 THEN <<>>
  ELSE IF local(q) # <<>> THEN local(q)
  ELSE IF searchTryThrows(resp) THEN <<>>
  ELSE mapItems(resp.items)

calculateAccessibilityScore(item) ==
  CASE item.type \in {"hospital", "clinic"} -> 8
    [] item.type \in {"hotel", "hostel"} -> 7
    [] item.type \in {"mall", "supermarket", "department_store"} -> 8
    [] item.type \in {"airport", "bus_station", "train_station"} -> 7
    [] item.type \in {"restaurant", "cafe", "fast_food"} -> 6
    [] item.type \in {"bank", "post_office", "library"} -> 7
    [] item.type \in {"school", "university", "college"} -> 6
    [] item.type \in {"place_of_worship", "temple", "church"} -> 4
    [] item.type \in {"historic", "attraction", "viewpoint"} -> 3

parseNominatimResults(data) ==
  [j \in 1..Len(data) |->
     [name |-> IF beforeComma(data[j].display_name) # <<>>
                 THEN beforeComma(data[j].display_name)
                 ELSE <<"U", "n", "k", "n", "o", "w", "n">>,
      displayName |-> data[j].display_name,
      lat |-> parseFloat(data[j].lat), lng |-> parseFloat(data[j].lon),
      type |-> data[j].type,
      accessibilityScore |-> calculateAccessibilityScore(data[j])]]

getMockSearchResults(query) ==
  LET mockPlaces ==
        <<[name |-> <<"K", "a", "t", "h", "m", "a", "n", "d", "u", " ", "D", "u", "r", "b",
                      "a", "r", " ", "S", "q", "u", "a", "r", "e">>,
           lat |-> 277040, lng |-> 853070, type |-> "historic", score |-> 4],
          [name |-> <<"P", "a", "t", "a", "n", " ", "D", "u", "r", "b", "a", "r", " ", "S",
                      "q", "u", "a", "r", "e">>,
           lat |-> 276730, lng |-> 853250, type |-> "historic", score |-> 4],
          [name |-> <<"S", "w", "a", "y", "a", "m", "b", "h", "u", "n", "a", "t", "h", " ",
                      "S", "t", "u", "p", "a">>,
           lat |-> 277150, lng |-> 852900, type |-> "temple", score |-> 3],
          [name |-> <<"B", "o", "u", "d", "h", "a", "n", "a", "t", "h", " ", "S", "t", "u",
                      "p", "a">>,
           lat |-> 277210, lng |-> 853620, type |-> "temple", score |-> 4],
          [name |-> <<"P", "a", "s", "h", "u", "p", "a", "t", "i", "n", "a", "t", "h", " ",
                      "T", "e", "m", "p", "l", "e">>,
           lat |-> 277100, lng |-> 853480, type |-> "temple", score |-> 3],
          [name |-> <<"G", "a", "r", "d", "e", "n", " ", "o", "f", " ", "D", "r", "e", "a",
                      "m", "s">>,
           lat |-> 277160, lng |-> 853170, type |-> "park", score |-> 8],
          [name |-> <<"T", "h", "a", "m", "e", "l">>,
           lat |-> 277150, lng |-> 853110, type |-> "tourism", score |-> 6],
          [name |-> <<"C", "i", "v", "i", "l", " ", "M", "a", "l", "l">>,
           lat |-> 276960, lng |-> 853180, type |-> "mall", score |-> 8],
          [name |-> <<"B", "h", "a", "t", "b", "h", "a", "t", "e", "n", "i", " ", "S", "u",
                      "p", "e", "r", "m", "a", "r", "k", "e", "t">>,
           lat |-> 277090, lng |-> 853220, type |-> "supermarket", score |-> 7],
          [name |-> <<"K", "a", "t", "h", "m", "a", "n", "d", "u", " ", "M", "e", "d", "i",
                      "c", "a", "l", " ", "C", "o", "l", "l", "e", "g", "e">>,
           lat |-> 277250, lng |-> 853320, type |-> "hospital", score |-> 8],
          [name |-> <<"T", "r", "i", "b", "h", "u", "v", "a", "n", " ", "U", "n", "i", "v",
                      "e", "r", "s", "i", "t", "y">>,
           lat |-> 276830, lng |-> 852870, type |-> "university", score |-> 6],
          [name |-> <<"N", "e", "p", "a", "l", " ", "T", "o", "u", "r", "i", "s", "m", " ",
                      "B", "o", "a", "r", "d">>,
           lat |-> 277150, lng |-> 853160, type |-> "office", score |-> 7],
          [name |-> <<"K", "a", "t", "h", "m", "a", "n", "d", "u", " ", "A", "i", "r", "p",
                      "o", "r", "t">>,
           lat |-> 276960, lng |-> 853590, type |-> "airport", score |-> 7],
          [name |-> <<"B", "u", "s", " ", "P", "a", "r", "k">>,
           lat |-> 277240, lng |-> 853160, type |-> "bus_station", score |-> 5]>>
      found == SelectSeq(mockPlaces,
                         LAMBDA place : includes(toLowerCase(place.name), toLowerCase(query)))
  IN  [j \in 1..Len(found) |->
         [name |-> found[j].name,
          displayName |->
            found[j].name \o <<",", " ", "K", "a", "t", "h", "m", "a", "n", "d", "u">>,
          lat |-> found[j].lat, lng |-> found[j].lng,
          type |-> found[j].type, accessibilityScore |-> found[j].score]]

\* one provider call of the older searchPlaces ends in a throw: fetch
\* rejects, the status is not 2xx, response.json() rejects, or (the body
\* being an object) data.map is not a function
callThrows(resp) ==
  resp.fetch = "rejects" \/ ~resp.ok \/ resp.body = "html" \/ resp.body = "object"

\* the older searchPlaces makes the second call: the first gave an empty list
needsFallback(resp) == ~callThrows(resp) /\ resp.items = <<>>

\* searchPlaces of the older map (part_006:239-274), given what its first
\* and its second provider call do
searchPlacesKtm(query, resp, fallbackResp) ==
  IF Len(query) < 2 THEN <<>>
  ELSE IF callThrows(resp) THEN getMockSearchResults(query)
  ELSE IF needsFallback(resp)
    THEN IF callThrows(fallbackResp) THEN getMockSearchResults(query)
         ELSE parseNominatimResults(fallbackResp.items)
  ELSE parseNominatimResults(resp.items)

\* what is typed into the box
SearchTexts ==
  {<<>>, <<"g">>, <<"g", "a">>, <<"z", "z">>, <<"m", "a", "l", "l">>}

\* local, searchPlaces and the older searchPlaces over the texts and responses
\* of the model, computed once
localOf == [q \in SearchTexts |-> local(q)]
searchPlacesOf ==
  [q \in SearchTexts, resp \in SearchResponses |-> searchPlaces(q, resp)]
searchPlacesKtmOf ==
  [q \in SearchTexts, resp \in SearchResponses, fallbackResp \in SearchResponses |->
     searchPlacesKtm(q, resp, fallbackResp)]

SearchInit ==
  /\ sVariant \in {"ku", "ktm"}
  /\ sq = <<>> /\ sTimer = <<>> /\ sInflight = {}
  /\ sResults = <<>> /\ sSearching = FALSE /\ sFired = 0 /\ sShown = 0 /\ sLatest = <<>>
  /\ sLast = <<>> /\ sInvoked = <<>>
  /\ OvIdle /\ ApiIdle /\ GcIdle
  /\ UiIdle
  /\ CalcIdle
  /\ GenIdle

\* The input's text becomes text and the effect on it runs (map.tsx:255-259,
\* part_006:793-811). The older component's effect returns a cleanup that
\* clears the timer, and React runs it before the effect runs again; the
\* campus component's effect clears the timer itself, after its early return.
onChange(text) ==
  /\ text # sq
  /\ sq' = text
  /\ IF Len(text) < 2
       THEN /\ sResults' = <<>>
            /\ sShown' = 0
            /\ sTimer' = IF sVariant = "ktm" THEN <<>> ELSE sTimer
       ELSE /\ sTimer' = <<text>>
            /\ UNCHANGED <<sResults, sShown>>
  /\ UNCHANGED <<sVariant, sInflight, sSearching, sFired, sLatest, sLast, sInvoked>>
  /\ UNCHANGED <<ovVars, apiVars, gcVars, uiVars, calcVars, genVars>>

\* The timer's callback runs: the flag is set and searchPlaces is called with
\* the text the effect closed over. The campus searchPlaces returns a local
\* match without awaiting anything, and the callback goes on at once.
timerFire ==
  /\ sTimer # <<>>
  /\ sFired < MaxSearches
  /\ LET q == sTimer[1]
         id == sFired + 1
     IN  /\ sTimer' = <<>>
         /\ sFired' = id
         /\ sInvoked' = <<[q |-> q, text |-> sq]>>
         /\ IF sVariant = "ku" /\ localOf[q] # <<>>
              THEN /\ sResults' = localOf[q]
                   /\ sSearching' = FALSE
                   /\ sShown' = id
                   /\ sLatest' = <<localOf[q]>>
                   /\ sLast' = <<[q |-> q, calls |-> <<>>, result |-> localOf[q]]>>
                   /\ UNCHANGED sInflight
              ELSE /\ sSearching' = TRUE
                   /\ sInflight' = sInflight \cup {[id |-> id, q |-> q]}
                   /\ sLatest' = <<>>
                   /\ UNCHANGED <<sResults, sShown, sLast>>
  /\ UNCHANGED <<sVariant, sq>>
  /\ UNCHANGED <<ovVars, apiVars, gcVars, uiVars, calcVars, genVars>>

\* The searchPlaces call of req resolves and its callback goes on:
\* setSr(result); setSs(false).
searchResolve(req, resp, fallbackResp) ==
  /\ req \in sInflight
  /\ LET result == IF sVariant = "ku" THEN searchPlacesOf[req.q, resp]
                   ELSE searchPlacesKtmOf[req.q, resp, fallbackResp]
         calls == IF sVariant = "ktm" /\ needsFallback(resp)
                    THEN <<resp, fallbackResp>> ELSE <<resp>>
     IN  /\ sResults' = result
         /\ sSearching' = FALSE
         /\ sShown' = req.id
         /\ sLatest' = IF req.id = sFired THEN <<result>> ELSE sLatest
         /\ sLast' = <<[q |-> req.q, calls |-> calls, result |-> result]>>
  /\ sInflight' = sInflight \ {req}
  /\ UNCHANGED <<sVariant, sq, sTimer, sFired, sInvoked>>
  /\ UNCHANGED <<ovVars, apiVars, gcVars, uiVars, calcVars, genVars>>

SearchNext ==
  \/ \E text \in SearchTexts : onChange(text)
  \/ timerFire
  \/ \E req \in sInflight : \E resp \in SearchResponses :
       \E fallbackResp \in (IF sVariant = "ktm" /\ needsFallback(resp)
                              THEN SearchResponses ELSE {resp}) :
         searchResolve(req, resp, fallbackResp)

SpecSearch == SearchInit /\ [][SearchNext]_vars

\* a provider call failed: transport error, a status that is not 2xx, or a
\* body that is not a list
ProviderFails(resp) ==
  resp.fetch = "rejects" \/ ~resp.ok \/ resp.body # "list"

\* C21: a searchPlaces call whose provider call failed, or whose provider
\* calls all returned no results, has resolved with the empty list.
C21_EmptyOnFailure ==
  sLast # <<>> =>
    LET calls == sLast[1].calls
    IN  ((\E j \in 1..Len(calls) : ProviderFails(calls[j]))
          \/ (calls # <<>> /\ \A j \in 1..Len(calls) : calls[j].items = <<>>))
        => sLast[1].result = <<>>

\* C24: searchPlaces is invoked with the input's current text.
C24_CurrentText ==
  sInvoked # <<>> => sInvoked[1].q = sInvoked[1].text

\* C29: once no search is in flight, results shown by a search are those of
\* the most recently fired search, and the 'searching' flag is true while the
\* most recently fired search is in flight.
C29_LatestSearchWins ==
  /\ (sInflight = {} /\ sShown # 0) => sResults = sLatest[1]
  /\ (\E req \in sInflight : req.id = sFired) => sSearching

--------------------------------------------------------------------------
\* parseOverpassData of the older map (part_006:169-218). An absent field is
\* <<>>, a present one <<v>>; an absent tag is ""; a description is the
\* sequence of the parts of its template, its dash written '-'.

MaxElements == 2

OsmTags(h, su, sm) == [highway |-> h, surface |-> su, smoothness |-> sm]
Element(center, lat, lon, tags) ==
  [center |-> center, lat |-> lat, lon |-> lon, tags |-> tags]

\* the elements a response is made of: nodes and ways (with a center), with
\* and without coordinates, with mapped, unmapped and no tags
OverpassElements ==
  {Element(<<>>, <<277100>>, <<853200>>, <<OsmTags("steps", "", "")>>),
   Element(<<[lat |-> <<277110>>, lon |-> <<853210>>]>>, <<>>, <<>>,
           <<OsmTags("construction", "", "")>>),
   Element(<<[lat |-> <<277120>>, lon |-> <<853220>>]>>, <<>>, <<>>,
           <<OsmTags("residential", "gravel", "")>>),
   Element(<<[lat |-> <<277130>>, lon |-> <<853230>>]>>, <<>>, <<>>,
           <<OsmTags("living_street", "", "very_bad")>>),
   Element(<<[lat |-> <<277140>>, lon |-> <<853240>>]>>, <<>>, <<>>,
           <<OsmTags("living_street", "", "")>>),
   Element(<<[lat |-> <<277150>>, lon |-> <<853250>>]>>, <<>>, <<>>,
           <<OsmTags("service", "asphalt", "")>>),
   Element(<<[lat |-> <<277160>>, lon |-> <<853260>>]>>, <<>>, <<>>,
           <<OsmTags("footway", "asphalt", "good")>>),
   Element(<<>>, <<277170>>, <<853270>>, <<>>),
   Element(<<>>, <<>>, <<>>, <<OsmTags("steps", "", "")>>),
   Element(<<>>, <<0>>, <<853290>>, <<OsmTags("steps", "", "")>>)}

\* a number that may be absent is truthy
truthy(x) == x # <<>> /\ x[1] # 0

\* element.center?.lat || element.lat
elementLat(element) ==
  IF element.center # <<>> /\ truthy(element.center[1].lat)
    THEN element.center[1].lat ELSE element.lat
\* element.center?.lon || element.lon
elementLng(element) ==
  IF element.center # <<>> /\ truthy(element.center[1].lon)
    THEN element.center[1].lon ELSE element.lon

\* the point pushed for a located element: the if-chain of part_006:182-212
hazardPointOf(element) ==
  LET tags == IF element.tags # <<>> THEN element.tags[1] ELSE OsmTags("", "", "")
      at(type, category, description) ==
        [lat |-> elementLat(element)[1], lng |-> elementLng(element)[1],
         type |-> type, category |-> category, description |-> description]
  IN  IF tags.highway = "steps"
        THEN at("hazard", "Stairs", <<"Stairs detected - not wheelchair accessible">>)
      ELSE IF tags.highway = "construction"
        THEN at("hazard", "Construction", <<"Road under construction">>)
      ELSE IF tags.surface \in {"unpaved", "gravel"}
        THEN at("hazard", "Unpaved", <<"Surface: ", tags.surface>>)
      ELSE IF tags.smoothness \in {"bad", "very_bad"}
        THEN at("hazard", "Poor Surface", <<"Smoothness: ", tags.smoothness>>)
      ELSE IF tags.highway = "living_street"
        THEN at("caution", "Narrow Alley",
                <<"Narrow living street - limited wheelchair access">>)
      ELSE IF tags.highway = "service"
        THEN at("caution", "Service Road", <<"Service road - may be narrow">>)
      ELSE at("caution", "Unknown", <<>>)

RECURSIVE parseFrom(_, _)
parseFrom(elements, j) ==
  IF j > Len(elements) THEN <<>>
  ELSE IF ~truthy(elementLat(elements[j])) \/ ~truthy(elementLng(elements[j]))
    THEN parseFrom(elements, j + 1)
  ELSE <<hazardPointOf(elements[j])>> \o parseFrom(elements, j + 1)

parseOverpassData(data) == parseFrom(data, 1)

OverpassInit ==
  /\ ovData \in SeqsUpTo(OverpassElements, MaxElements)
  /\ ovPoints = <<>>
  /\ SearchIdle /\ ApiIdle /\ GcIdle
  /\ UiIdle
  /\ CalcIdle
  /\ GenIdle

ParseOverpass ==
  /\ ovPoints = <<>>
  /\ ovPoints' = <<parseOverpassData(ovData)>>
  /\ UNCHANGED ovData
  /\ UNCHANGED <<searchVars, apiVars, gcVars, uiVars, calcVars, genVars>>

OverpassNext == ParseOverpass

SpecOverpass == OverpassInit /\ [][OverpassNext]_vars

\* the element has coordinates
Located(element) == truthy(elementLat(element)) /\ truthy(elementLng(element))

\* the element carries a tag of the lookup table
MappedTag(element) ==
  /\ element.tags # <<>>
  /\ \/ element.tags[1].highway \in {"steps", "construction", "living_street", "service"}
     \/ element.tags[1].surface \in {"unpaved", "gravel"}
     \/ element.tags[1].smoothness \in {"bad", "very_bad"}

\* C22: parseOverpassData returns as many points as there are located
\* elements with a mapped tag: an element without one yields no point.
C22_OnlyMappedTags ==
  ovPoints # <<>> =>
    Len(ovPoints[1]) =
      Cardinality({j \in 1..Len(ovData) : Located(ovData[j]) /\ MappedTag(ovData[j])})

--------------------------------------------------------------------------
\* Validation in the backend's endpoints: findAccessiblePaths (largenepal
\* routes.js:3-37) and createReport (reports.js:4-31). A value of a JSON body
\* is its type and its text; an absent property reads as undefined.

MaxCalls == 1

JsUndefined == [t |-> "undefined", v |-> ""]
JsNumber(text) == [t |-> "number", v |-> text]
JsString(text) == [t |-> "string", v |-> text]

\* !x
falsy(x) ==
  \/ x.t = "undefined"
  \/ x.t = "number" /\ x.v = "0"
  \/ x.t = "string" /\ x.v = ""

CoordValues == {JsUndefined, JsNumber("0"), JsNumber("27.62"), JsString("abc")}

\* from?.lng: undefined when from is absent
field(obj, name) == IF obj = <<>> THEN JsUndefined ELSE obj[1][name]

RouteBodies ==
  {[from |-> f, to |-> t] :
     f \in {<<>>} \cup {<<[lat |-> la, lng |-> lo]>> : la, lo \in CoordValues},
     t \in {<<>>, <<[lat |-> JsNumber("27.62"), lng |-> JsNumber("85.54")]>>,
            <<[lat |-> JsNumber("27.62"), lng |-> JsNumber("0")]>>,
            <<[lat |-> JsString("abc"), lng |-> JsNumber("85.54")]>>}}

ReportBodies ==
  {[issue_type |-> it, description |-> JsString("deep"), lat |-> la, lng |-> lo] :
     it \in {JsUndefined, JsString("pothole")}, la, lo \in CoordValues}

\* POST to the route-finding endpoint: the status answered, and whether and
\* with what parameters the query was issued; db is what pool.query does once
\* it is called
findAccessiblePaths(body, db) ==
  /\ Len(apiCalls) < MaxCalls
  /\ LET from == body.from
         to == body.to
     IN  apiCalls' =
           Append(apiCalls,
             IF \/ falsy(field(from, "lng")) \/ falsy(field(from, "lat"))
                \/ falsy(field(to, "lng")) \/ falsy(field(to, "lat"))
               THEN [endpoint |-> "routes", body |-> body, status |-> 400,
                     queried |-> <<>>]
               ELSE [endpoint |-> "routes", body |-> body,
                     status |-> IF db = "resolves" THEN 200 ELSE 500,
                     queried |-> <<field(from, "lng"), field(from, "lat"),
                                   field(to, "lng"), field(to, "lat")>>])
  /\ UNCHANGED <<searchVars, ovVars, gcVars, uiVars, calcVars, genVars>>

\* POST to the report-creation endpoint, likewise
postReport(body, db) ==
  /\ Len(apiCalls) < MaxCalls
  /\ apiCalls' =
       Append(apiCalls,
         IF \/ falsy(body.issue_type) \/ falsy(body.description)
            \/ falsy(body.lat) \/ falsy(body.lng)
           THEN [endpoint |-> "reports", body |-> body, status |-> 400, queried |-> <<>>]
           ELSE [endpoint |-> "reports", body |-> body,
                 status |-> IF db = "resolves" THEN 201 ELSE 500,
                 queried |-> <<body.lng, body.lat>>])
  /\ UNCHANGED <<searchVars, ovVars, gcVars, uiVars, calcVars, genVars>>

ApiInit ==
  /\ apiCalls = <<>>
  /\ SearchIdle /\ OvIdle /\ GcIdle
  /\ UiIdle
  /\ CalcIdle
  /\ GenIdle

ApiNext ==
  \/ \E body \in RouteBodies : \E db \in {"resolves", "rejects"} : findAccessiblePaths(body, db)
  \/ \E body \in ReportBodies : \E db \in {"resolves", "rejects"} : postReport(body, db)

SpecApi == ApiInit /\ [][ApiNext]_vars

\* the coordinates a request must carry
RequiredCoords(call) ==
  IF call.endpoint = "routes"
    THEN {field(call.body.from, "lng"), field(call.body.from, "lat"),
          field(call.body.to, "lng"), field(call.body.to, "lat")}
    ELSE {call.body.lat, call.body.lng}

\* C23: a request (a report's other required fields being present) is
\* answered 400, with no query issued, exactly when one of its required
\* coordinates is missing or not a number; 0 is a number.
C23_ValidationExact ==
  \A j \in 1..Len(apiCalls) :
    LET call == apiCalls[j]
        invalid == \E c \in RequiredCoords(call) : c.t # "number"
    IN  (call.endpoint = "reports" => ~falsy(call.body.issue_type)) =>
          /\ invalid => (call.status = 400 /\ call.queried = <<>>)
          /\ ~invalid => call.status # 400

--------------------------------------------------------------------------
\* The rate limiter of reverseGeocode (largenepal places.js:54-103). Times
\* are in ms. An absent query parameter or header is "", which is falsy as
\* undefined is; a key without a recorded time is <<>>.

MaxGeoCalls == 4
MaxGeoTicks == 3

RATE_WINDOW_MS == 2000

\* the clock starts after the epoch and time passes in steps of one second
GeoStart == 1000
TickMs == 1000

Addresses == {"10.0.0.1", "10.0.0.2"}

\* GET requests: lat given or not, the x-forwarded-for header given or not,
\* the socket's remote address
GeoRequests ==
  {[lat |-> la, lon |-> "85.3", forwarded |-> fw, remoteAddress |-> ra] :
     la \in {"", "27.7"}, fw \in {"", "10.0.0.2"}, ra \in Addresses}

\* req.headers['x-forwarded-for'] || req.socket.remoteAddress
clientIp(req) == IF req.forwarded # "" THEN req.forwarded ELSE req.remoteAddress

\* the window test that counts a request exactly 2000 ms later as too early
limited_inclusive(cache, key, t) ==
  cache[key] # <<>> /\ cache[key][1] # 0 /\ t - cache[key][1] <= RATE_WINDOW_MS

\* global.geocodeCache && global.geocodeCache[key] && Date.now() - global.geocodeCache[key] < 2000
limited(cache, key, t) ==
  cache[key] # <<>> /\ cache[key][1] # 0 /\ t - cache[key][1] < RATE_WINDOW_MS

GeoInit ==
  /\ geocodeCache = [key \in Addresses |-> <<>>]
  /\ gcNow = GeoStart
  /\ gcLog = <<>>
  /\ SearchIdle /\ OvIdle /\ ApiIdle
  /\ UiIdle
  /\ CalcIdle
  /\ GenIdle

\* One request. The test and the recording run before the handler's first
\* await; what follows the await leaves global.geocodeCache alone. The
\* provider call gives an address or none, or fails (fetch rejects or the
\* status is not 2xx).
reverseGeocode(req, outcome) ==
  /\ Len(gcLog) < MaxGeoCalls
  /\ LET key == clientIp(req)
         entry(status) == [ip |-> key, lat |-> req.lat, lon |-> req.lon, at |-> gcNow,
                           status |-> status]
     IN  IF req.lat = "" \/ req.lon = ""
           THEN /\ gcLog' = Append(gcLog, entry(400))
                /\ UNCHANGED geocodeCache
         ELSE IF limited(geocodeCache, key, gcNow)
           THEN /\ gcLog' = Append(gcLog, entry(429))
                /\ UNCHANGED geocodeCache
         ELSE /\ geocodeCache' = [geocodeCache EXCEPT ![key] = <<gcNow>>]
              /\ gcLog' = Append(gcLog, entry(IF outcome = "fails" THEN 503 ELSE 200))
  /\ UNCHANGED gcNow
  /\ UNCHANGED <<searchVars, ovVars, apiVars, uiVars, calcVars, genVars>>

GeoTick ==
  /\ gcNow + TickMs <= GeoStart + MaxGeoTicks * TickMs
  /\ gcNow' = gcNow + TickMs
  /\ UNCHANGED <<geocodeCache, gcLog>>
  /\ UNCHANGED <<searchVars, ovVars, apiVars, uiVars, calcVars, genVars>>

GeoNext ==
  \/ \E req \in GeoRequests : \E outcome \in {"address", "no_address", "fails"} :
       reverseGeocode(req, outcome)
  \/ GeoTick

SpecLimiter == GeoInit /\ [][GeoNext]_vars

\* the request was let through the limiter
Admitted(e) == e.status # 400 /\ e.status # 429

\* the time of the last admitted request from ip among the first n
RECURSIVE LastAdmitted(_, _)
LastAdmitted(ip, n) ==
  IF n = 0 THEN <<>>
  ELSE IF gcLog[n].ip = ip /\ Admitted(gcLog[n]) THEN <<gcLog[n].at>>
  ELSE LastAdmitted(ip, n - 1)

\* C30: a request with lat and lon is answered 429 exactly when a request
\* from the same client address was admitted less than 2000 ms before it;
\* the time recorded for an address is that of its last admitted request, so
\* a 400, a 429 or another address's request does not move it.
C30_RateLimit ==
  /\ \A j \in 1..Len(gcLog) :
       (gcLog[j].lat # "" /\ gcLog[j].lon # "") =>
         (gcLog[j].status = 429 <=>
            \E i \in 1..(j - 1) :
              /\ gcLog[i].ip = gcLog[j].ip
              /\ Admitted(gcLog[i])
              /\ gcLog[j].at - gcLog[i].at < 2000)
  /\ \A ip \in Addresses : geocodeCache[ip] = LastAdmitted(ip, Len(gcLog))

\* C30: one address was admitted, refused 1000 ms later and admitted again
\* exactly 2000 ms after the first time, and the other address was admitted
\* inside that window
C30_Witness ==
  \E i, j, k, o \in 1..Len(gcLog) :
    /\ i < j /\ j < k
    /\ gcLog[i].ip = gcLog[j].ip /\ gcLog[j].ip = gcLog[k].ip
    /\ Admitted(gcLog[i]) /\ gcLog[j].status = 429 /\ Admitted(gcLog[k])
    /\ gcLog[k].at = gcLog[i].at + 2000
    /\ gcLog[o].ip # gcLog[i].ip /\ Admitted(gcLog[o])
    /\ gcLog[o].at - gcLog[i].at < 2000 /\ gcLog[o].at >= gcLog[i].at

==========================================================================
